---- MODULE Spec2Model ----
(***************************************************************************)
(* Sudoku engine of Sudoku-App: the backtracking solver (solveSudoku with  *)
(* isValidPlacement), the hint provider (getHint), the puzzle generator    *)
(* (generateSudoku) and the validators (validateGrid, findConflicts).      *)
(*                                                                         *)
(* A grid is a function Idx -> Idx -> 0..9; 0 stands for null (empty).     *)
(* Grids are JavaScript arrays, passed by reference: `heap` maps each grid *)
(* object to its content, and solveSudoku writes into the object its       *)
(* parameter `board` refers to, whoever else holds that object.            *)
(* solveSudoku is recursive: it is modelled as a machine with an explicit  *)
(* call stack, one frame per invocation that is inside its for-loop.       *)
(* Every action writes at most one cell, so each intermediate grid of the  *)
(* search is a state.                                                      *)
(***************************************************************************)
EXTENDS Integers, Sequences, FiniteSets

VARIABLES
    op,        \* the operation in progress: "solve", "hint", "generate", ...
    pc,        \* control position
    heap,      \* grid objects: name of the object |-> its content
    arg,       \* the object the parameter `board` of solveSudoku refers to
    board0,    \* history: content of `board` when solveSudoku was called
    stack,     \* call stack of solveSudoku: frames [row, col, num]
    ret,       \* value just returned by an inner solveSudoku call
    result,    \* value returned by the outermost solveSudoku call
    grid0,     \* history: content of the caller's `grid` when getHint was called
    cell,      \* getHint: randomCell
    hint,      \* getHint: the value returned
    difficulty,\* generateSudoku: its argument
    removed,   \* removeNumbers: cells cleared so far
    steps,     \* history: iterations of the loop of removeNumbers so far
    rng,       \* state of the random source behind Math.random()
    invalidCells, \* component state set by validateGrid
    conflicts, \* the matrix findConflicts returned for the current grid
    placement, \* the last call of isValidPlacement made by a caller other
               \* than solveSudoku: its arguments and the value it returned
    hintsRemaining, \* component state
    validSudoku, \* <<v>> once isValidSudoku has returned v, <<>> before
    ops,       \* history: user operations handled by the component so far
    worker,    \* ocr.ts: the module variable `worker`
    workers,   \* the Tesseract workers created so far: worker |-> its stage
    calls      \* the calls of initOCRWorker: caller |-> position and result

vars == <<op, pc, heap, arg, board0, stack, ret, result, grid0, cell, hint,
          difficulty, removed, steps, rng, invalidCells, conflicts, placement,
          hintsRemaining, validSudoku, ops, worker, workers, calls>>

solverVars == <<arg, board0, stack, ret, result>>
hintVars == <<grid0, cell, hint>>
genVars == <<difficulty, removed, steps, rng>>
compVars == <<hintsRemaining, validSudoku, ops>>
ocrVars == <<worker, workers, calls>>
valVars == <<invalidCells, conflicts, placement, compVars, ocrVars>>

----------------------------------------------------------------------------
(* Grid values *)

N == 9
Box == 3
Null == 0

Idx == 0 .. (N - 1)
Digits == 1 .. N
Cells == Idx \X Idx

EmptyBoard == [r \in Idx |-> [c \in Idx |-> Null]]

\* Array(9).fill(null).map(() => Array(9).fill(false))
NoMarks == [r \in Idx |-> [c \in Idx |-> FALSE]]

\* the module variable `worker` is null
NoWorker == 0

\* no call of isValidPlacement made yet
NoPlacement == [row |-> N, col |-> N, num |-> Null, valid |-> FALSE]

\* the value of cell p = <<row, col>> of b
At(b, p) == b[p[1]][p[2]]

\* a new grid object `name` with content b (Array(9)..., grid.map(r => [...r]))
Alloc(h, name, b) == [x \in DOMAIN h \cup {name} |-> IF x = name THEN b ELSE h[x]]

\* the object the parameter `board` of solveSudoku refers to
board == heap[arg]

\* board[row][col] = v: an in-place write to the object `board` refers to
Put(h, row, col, v) == [h EXCEPT ![arg][row][col] = v]

----------------------------------------------------------------------------
(* isValidPlacement *)

\* faulty variant: the scan of the 3x3 box left out
isValidPlacement_NoBox(b, row, col, num) ==
    \A i \in Idx : ~ (b[row][i] = num \/ b[i][col] = num)

\* faulty variant: the scan of the row left out
isValidPlacement_NoRow(b, row, col, num) ==
    \A i \in Idx :
        /\ b[i][col] # num
        /\ LET boxRow == Box * (row \div Box) + (i \div Box)
               boxCol == Box * (col \div Box) + (i % Box)
           IN  b[boxRow][boxCol] # num

\* faulty variant: the scan of the column left out
isValidPlacement_NoCol(b, row, col, num) ==
    \A i \in Idx :
        /\ b[row][i] # num
        /\ LET boxRow == Box * (row \div Box) + (i \div Box)
               boxCol == Box * (col \div Box) + (i % Box)
           IN  b[boxRow][boxCol] # num

\* faulty variant: the target cell itself left out of the three scans
isValidPlacement_SkipSelf(b, row, col, num) ==
    \A i \in Idx :
        /\ (i # col => b[row][i] # num)
        /\ (i # row => b[i][col] # num)
        /\ LET boxRow == Box * (row \div Box) + (i \div Box)
               boxCol == Box * (col \div Box) + (i % Box)
           IN  (<<boxRow, boxCol>> # <<row, col>>) => b[boxRow][boxCol] # num

isValidPlacement(b, row, col, num) ==
    \A i \in Idx :
        /\ ~ (b[row][i] = num \/ b[i][col] = num)
        /\ LET boxRow == Box * (row \div Box) + (i \div Box)
               boxCol == Box * (col \div Box) + (i % Box)
           IN  b[boxRow][boxCol] # num

----------------------------------------------------------------------------
(* solveSudoku *)

NoCell == [row |-> N, col |-> N]

\* faulty variant: the scan runs column by column
findEmptyCell_ColMajor(b) ==
    LET E == {j \in 0 .. (N * N - 1) : b[j % N][j \div N] = Null}
    IN  IF E = {} THEN NoCell
        ELSE LET j == CHOOSE j \in E : \A k \in E : j <= k
             IN  [row |-> j % N, col |-> j \div N]

\* faulty variant: the scan runs from the last cell backwards
findEmptyCell_Reverse(b) ==
    LET E == {j \in 0 .. (N * N - 1) : b[j \div N][j % N] = Null}
    IN  IF E = {} THEN NoCell
        ELSE LET j == CHOOSE j \in E : \A k \in E : j >= k
             IN  [row |-> j \div N, col |-> j % N]

\* row-major scan, first null cell; NoCell stands for the `return null`
findEmptyCell(b) ==
    LET E == {j \in 0 .. (N * N - 1) : b[j \div N][j % N] = Null}
    IN  IF E = {} THEN NoCell
        ELSE LET j == CHOOSE j \in E : \A k \in E : j <= k
             IN  [row |-> j \div N, col |-> j % N]

\* faulty variant: num < 9
InLoop_OffByOne(num) == num < N

\* the loop condition num <= 9
InLoop(num) == num <= N

Top == stack[Len(stack)]
Pop == SubSeq(stack, 1, Len(stack) - 1)

\* Entry of an invocation: findEmptyCell, `return true` when the board is
\* complete, otherwise enter the for-loop at num = 1.
SolveCall ==
    /\ pc = "call"
    /\ LET e == findEmptyCell(board)
       IN  IF e = NoCell
           THEN /\ ret' = TRUE
                /\ pc' = "return"
                /\ stack' = stack
           ELSE /\ stack' = Append(stack, [row |-> e.row, col |-> e.col, num |-> 1])
                /\ pc' = "loop"
                /\ ret' = ret
    /\ UNCHANGED <<op, heap, arg, board0, result, hintVars, genVars, valVars>>

\* faulty variant: board[col][row] = num
SolvePlace_Transposed ==
    /\ pc = "loop"
    /\ InLoop(Top.num)
    /\ isValidPlacement(board, Top.row, Top.col, Top.num)
    /\ heap' = Put(heap, Top.col, Top.row, Top.num)
    /\ pc' = "call"
    /\ UNCHANGED <<op, arg, board0, stack, ret, result, hintVars, genVars, valVars>>

\* Loop body with isValidPlacement true: place num and recurse.
SolvePlace ==
    /\ pc = "loop"
    /\ InLoop(Top.num)
    /\ isValidPlacement(board, Top.row, Top.col, Top.num)
    /\ heap' = Put(heap, Top.row, Top.col, Top.num)
    /\ pc' = "call"
    /\ UNCHANGED <<op, arg, board0, stack, ret, result, hintVars, genVars, valVars>>

\* Loop body with isValidPlacement false: next num.
SolveSkip ==
    /\ pc = "loop"
    /\ InLoop(Top.num)
    /\ ~ isValidPlacement(board, Top.row, Top.col, Top.num)
    /\ stack' = [stack EXCEPT ![Len(stack)].num = @ + 1]
    /\ UNCHANGED <<op, pc, heap, arg, board0, ret, result, hintVars, genVars, valVars>>

\* Loop exhausted: `return false`.
SolveFail ==
    /\ pc = "loop"
    /\ ~ InLoop(Top.num)
    /\ stack' = Pop
    /\ ret' = FALSE
    /\ pc' = "return"
    /\ UNCHANGED <<op, heap, arg, board0, result, hintVars, genVars, valVars>>

\* The recursive call returned true into the frame on top: `return true`.
SolveUnwind ==
    /\ pc = "return"
    /\ stack # <<>>
    /\ ret = TRUE
    /\ stack' = Pop
    /\ UNCHANGED <<op, pc, heap, arg, board0, ret, result, hintVars, genVars, valVars>>

\* faulty variant: the cell is not reset to null
SolveBacktrack_NoReset ==
    /\ pc = "return"
    /\ stack # <<>>
    /\ ret = FALSE
    /\ stack' = [stack EXCEPT ![Len(stack)].num = @ + 1]
    /\ pc' = "loop"
    /\ UNCHANGED <<op, heap, arg, board0, ret, result, hintVars, genVars, valVars>>

\* faulty variant: the loop goes on with the same num
SolveBacktrack_NoAdvance ==
    /\ pc = "return"
    /\ stack # <<>>
    /\ ret = FALSE
    /\ heap' = Put(heap, Top.row, Top.col, Null)
    /\ pc' = "loop"
    /\ UNCHANGED <<op, arg, board0, stack, ret, result, hintVars, genVars, valVars>>

\* The recursive call returned false into the frame on top: backtrack,
\* reset the cell to null and go on with the next num.
SolveBacktrack ==
    /\ pc = "return"
    /\ stack # <<>>
    /\ ret = FALSE
    /\ heap' = Put(heap, Top.row, Top.col, Null)
    /\ stack' = [stack EXCEPT ![Len(stack)].num = @ + 1]
    /\ pc' = "loop"
    /\ UNCHANGED <<op, arg, board0, ret, result, hintVars, genVars, valVars>>

\* The outermost invocation returns to its caller.
SolveReturn ==
    /\ pc = "return"
    /\ stack = <<>>
    /\ result' = ret
    /\ pc' = "returned"
    /\ UNCHANGED <<op, heap, arg, board0, stack, ret, hintVars, genVars, valVars>>

Solver ==
    \/ SolveCall
    \/ SolvePlace
    \/ SolveSkip
    \/ SolveFail
    \/ SolveUnwind
    \/ SolveBacktrack
    \/ SolveReturn

\* solveSudoku(name): the call, from any position of a caller
CallSolve(name, h) ==
    /\ arg' = name
    /\ board0' = h[name]
    /\ stack' = <<>>
    /\ pc' = "call"
    /\ UNCHANGED <<ret, result>>

----------------------------------------------------------------------------
(* Input grids.  A caller may hand any 9x9 grid of null/1..9 to the engine   *)
(* (manual entry, image import).  The grids explored are cut from the board  *)
(* createSolvedBoard returns, the only board generateSudoku starts from:     *)
(* its last k cells (row-major) cleared, or some of HoleCells cleared, and   *)
(* optionally one cell overwritten by an arbitrary digit: a clue that may    *)
(* agree with no completion, or that collides with a peer.                   *)

MaxCleared == 20

SolvedRows ==
    << <<1, 2, 3, 4, 5, 6, 7, 8, 9>>,
       <<4, 5, 6, 7, 8, 9, 1, 2, 3>>,
       <<7, 8, 9, 1, 2, 3, 4, 5, 6>>,
       <<2, 1, 4, 3, 6, 5, 8, 9, 7>>,
       <<3, 6, 5, 8, 9, 7, 2, 1, 4>>,
       <<8, 9, 7, 2, 1, 4, 3, 6, 5>>,
       <<5, 3, 1, 6, 4, 2, 9, 7, 8>>,
       <<6, 4, 2, 9, 7, 8, 5, 3, 1>>,
       <<9, 7, 8, 5, 3, 1, 6, 4, 2>> >>

BaseBoard == [r \in Idx |-> [c \in Idx |-> SolvedRows[r + 1][c + 1]]]

ClearSuffix(b, k) ==
    [r \in Idx |-> [c \in Idx |-> IF N * r + c >= N * N - k THEN Null ELSE b[r][c]]]

ClearCells(b, H) ==
    [r \in Idx |-> [c \in Idx |-> IF <<r, c>> \in H THEN Null ELSE b[r][c]]]

\* two rows and two columns of BaseBoard that cross in the digits 7 3 / 3 7,
\* in four different boxes
HoleCells == {<<1, 3>>, <<1, 8>>, <<3, 3>>, <<3, 8>>}

TwistCells == {<<8, 8>>, <<4, 4>>}

Cleared(maxCleared) ==
    {ClearSuffix(BaseBoard, k) : k \in 0 .. maxCleared}
    \cup {ClearCells(BaseBoard, H) : H \in SUBSET HoleCells}

InputGrids(maxCleared) ==
    Cleared(maxCleared)
    \cup {[b EXCEPT ![t[1]][t[2]] = d] :
            b \in Cleared(maxCleared), t \in TwistCells, d \in Digits}

----------------------------------------------------------------------------
(* solveSudoku called directly on an input grid *)

NoHint == [row |-> N, col |-> N, value |-> Null]

InitSolve ==
    /\ op = "solve"
    /\ \E g \in InputGrids(MaxCleared) :
          /\ heap = [x \in {"grid"} |-> g]
          /\ board0 = g
          /\ grid0 = g
    /\ arg = "grid"
    /\ pc = "call"
    /\ stack = <<>>
    /\ ret = FALSE
    /\ result = FALSE
    /\ cell = NoCell
    /\ hint = NoHint
    /\ difficulty = "none"
    /\ removed = 0
    /\ steps = 0
    /\ rng = 0
    /\ invalidCells = <<>>
    /\ conflicts = NoMarks
    /\ placement = NoPlacement
    /\ hintsRemaining = 3
    /\ validSudoku = <<>>
    /\ ops = 0
    /\ worker = NoWorker
    /\ workers = <<>>
    /\ calls = <<>>

NextSolve == Solver

SpecSolve == InitSolve /\ [][NextSolve]_vars

----------------------------------------------------------------------------
(* validateGrid of the component, findConflicts of the validator *)

\* parts[0] \o parts[1] \o ... \o parts[n - 1]: the pushes of a loop, in order
Concat(parts) ==
    LET n == Cardinality(DOMAIN parts)
        G[k \in 0 .. n] == IF k = 0 THEN <<>> ELSE G[k - 1] \o parts[k - 1]
    IN  G[n]

RC(r, c) == [row |-> r, col |-> c]

RowPushes(g, row, col) ==
    Concat([i \in Idx |->
        IF i # col /\ g[row][i] = g[row][col]
        THEN <<RC(row, col), RC(row, i)>> ELSE <<>>])

ColPushes(g, row, col) ==
    Concat([i \in Idx |->
        IF i # row /\ g[i][col] = g[row][col]
        THEN <<RC(row, col), RC(i, col)>> ELSE <<>>])

\* faulty variant: no check of the 3x3 subgrid
BoxPushes_Missing(g, row, col) == <<>>

BoxPushes(g, row, col) ==
    LET subgridRowStart == (row \div Box) * Box
        subgridColStart == (col \div Box) * Box
    IN  Concat([k \in 0 .. (Box * Box - 1) |->
            LET i == subgridRowStart + (k \div Box)
                j == subgridColStart + (k % Box)
            IN  IF i # row /\ j # col /\ g[i][j] = g[row][col]
                THEN <<RC(row, col), RC(i, j)>> ELSE <<>>])

\* invalidCells.filter((cell, index, self) => index === self.findIndex(...))
Unique(seq) ==
    LET G[k \in 0 .. Len(seq)] ==
            IF k = 0 THEN <<>>
            ELSE IF \E m \in 1 .. (k - 1) : seq[m] = seq[k]
                 THEN G[k - 1]
                 ELSE Append(G[k - 1], seq[k])
    IN  G[Len(seq)]

\* the array validateGrid hands to setInvalidCells
validateGrid(g) ==
    Unique(Concat([j \in 0 .. (N * N - 1) |->
        LET row == j \div N
            col == j % N
        IN  IF g[row][col] = Null THEN <<>>
            ELSE RowPushes(g, row, col) \o ColPushes(g, row, col)
                    \o BoxPushes(g, row, col)]))

\* the cells markConflicts is called with while a group is scanned: at[k] is
\* the k-th cell of the group in scan order; a value met again marks the
\* cell the Map holds for it (its first cell) and the current cell
GroupMarks(g, at) ==
    UNION {
        LET first == CHOOSE m \in 0 .. (k - 1) :
                        /\ At(g, at[m]) = At(g, at[k])
                        /\ \A l \in 0 .. (m - 1) : At(g, at[l]) # At(g, at[k])
        IN  {at[first], at[k]} :
        k \in {k \in Idx : /\ At(g, at[k]) # Null
                           /\ \E m \in 0 .. (k - 1) : At(g, at[m]) = At(g, at[k])}
    }

findConflicts(g) ==
    LET marked ==
            UNION {GroupMarks(g, [j \in Idx |-> <<i, j>>])
                     \cup GroupMarks(g, [j \in Idx |-> <<j, i>>]) : i \in Idx}
            \cup UNION {GroupMarks(g, [k \in Idx |->
                            <<Box * (b \div Box) + (k \div Box),
                              Box * (b % Box) + (k % Box)>>]) : b \in Idx}
    IN  [r \in Idx |-> [c \in Idx |-> <<r, c>> \in marked]]

\* the second copy of validateGrid: a cell is pushed alone, once for every
\* index i whose row or column test succeeds and once per matching box cell
LinePushes(g, row, col) ==
    Concat([i \in Idx |->
        IF (i # col /\ g[row][i] = g[row][col]) \/ (i # row /\ g[i][col] = g[row][col])
        THEN <<RC(row, col)>> ELSE <<>>])

SubgridPushes(g, row, col) ==
    LET subgridRowStart == (row \div Box) * Box
        subgridColStart == (col \div Box) * Box
    IN  Concat([k \in 0 .. (Box * Box - 1) |->
            LET i == subgridRowStart + (k \div Box)
                j == subgridColStart + (k % Box)
            IN  IF i # row /\ j # col /\ g[i][j] = g[row][col]
                THEN <<RC(row, col)>> ELSE <<>>])

validateGridSinglePush(g) ==
    Unique(Concat([j \in 0 .. (N * N - 1) |->
        LET row == j \div N
            col == j % N
        IN  IF g[row][col] = Null THEN <<>>
            ELSE LinePushes(g, row, col) \o SubgridPushes(g, row, col)]))

\* faulty variant: null entries are not filtered out of the group
isValidGroup_NoFilter(numbers) ==
    Cardinality({numbers[k] : k \in 1 .. Len(numbers)}) = Len(numbers)

\* filtered holds the non-null entries; a Set of them has their number of
\* elements exactly when no value repeats
isValidGroup(numbers) ==
    LET filtered == SelectSeq(numbers, LAMBDA num : num # Null)
    IN  Cardinality({filtered[k] : k \in 1 .. Len(filtered)}) = Len(filtered)

\* rows and columns first, then the nine 3x3 sub-grids; false at the first
\* group with a repeated value, true when every check passes
isValidSudoku(g) ==
    /\ \A i \in Idx :
          /\ isValidGroup([k \in 1 .. N |-> g[i][k - 1]])
          /\ isValidGroup([k \in 1 .. N |-> g[k - 1][i]])
    /\ \A rs, cs \in 0 .. (Box - 1) :
          isValidGroup([k \in 1 .. N |->
              g[Box * rs + ((k - 1) \div Box)][Box * cs + ((k - 1) % Box)]])

----------------------------------------------------------------------------
(* getHint *)

\* the empty cells of g in row-major order, as the two loops push them
emptyCells(g) ==
    LET F[j \in 0 .. (N * N)] ==
            IF j = 0 THEN <<>>
            ELSE LET r == (j - 1) \div N
                     c == (j - 1) % N
                 IN  IF g[r][c] = Null
                     THEN Append(F[j - 1], [row |-> r, col |-> c])
                     ELSE F[j - 1]
    IN  F[N * N]

\* emptyCells.length === 0: return null
HintNone ==
    /\ op = "hint"
    /\ pc = "hint"
    /\ Len(emptyCells(heap["grid"])) = 0
    /\ hint' = NoHint
    /\ pc' = "done"
    /\ UNCHANGED <<op, heap, solverVars, grid0, cell, genVars, valVars>>

\* faulty variant: tempGrid is the grid itself, not a clone
HintChoose_NoClone ==
    /\ op = "hint"
    /\ pc = "hint"
    /\ LET cells == emptyCells(heap["grid"])
       IN  /\ Len(cells) # 0
           /\ \E k \in 1 .. Len(cells) : cell' = cells[k]
    /\ heap' = heap
    /\ CallSolve("grid", heap')
    /\ UNCHANGED <<op, grid0, hint, genVars, valVars>>

\* a random empty cell is picked, the grid is cloned into tempGrid and
\* solveSudoku(tempGrid) is called
HintChoose ==
    /\ op = "hint"
    /\ pc = "hint"
    /\ LET cells == emptyCells(heap["grid"])
       IN  /\ Len(cells) # 0
           /\ \E k \in 1 .. Len(cells) : cell' = cells[k]
    /\ heap' = Alloc(heap, "tempGrid", heap["grid"])
    /\ CallSolve("tempGrid", heap')
    /\ UNCHANGED <<op, grid0, hint, genVars, valVars>>

\* faulty variant: the value is read from tempGrid[col][row]
HintReturn_Transposed ==
    /\ op = "hint"
    /\ pc = "returned"
    /\ LET tempGrid == heap[arg]
           value == tempGrid[cell.col][cell.row]
       IN  hint' = IF result /\ value # Null
                   THEN [row |-> cell.row, col |-> cell.col, value |-> value]
                   ELSE NoHint
    /\ pc' = "done"
    /\ UNCHANGED <<op, heap, solverVars, grid0, cell, genVars, valVars>>

\* faulty variant: the value is read from the first empty cell
HintReturn_FirstEmpty ==
    /\ op = "hint"
    /\ pc = "returned"
    /\ LET tempGrid == heap[arg]
           first == emptyCells(grid0)[1]
           value == tempGrid[first.row][first.col]
       IN  hint' = IF result /\ value # Null
                   THEN [row |-> cell.row, col |-> cell.col, value |-> value]
                   ELSE NoHint
    /\ pc' = "done"
    /\ UNCHANGED <<op, heap, solverVars, grid0, cell, genVars, valVars>>

\* solveSudoku(tempGrid) has returned: the hint is read from tempGrid, or
\* null is returned
HintReturn ==
    /\ op = "hint"
    /\ pc = "returned"
    /\ LET tempGrid == heap[arg]
           value == tempGrid[cell.row][cell.col]
       IN  hint' = IF result /\ value # Null
                   THEN [row |-> cell.row, col |-> cell.col, value |-> value]
                   ELSE NoHint
    /\ pc' = "done"
    /\ UNCHANGED <<op, heap, solverVars, grid0, cell, genVars, valVars>>

\* faulty variant: updateCell(col, row, value)
ProvideHint_Transposed ==
    /\ op = "hint"
    /\ pc = "done"
    /\ hint # NoHint
    /\ LET newGrid == [heap["grid"] EXCEPT ![hint.col][hint.row] = hint.value]
       IN  /\ heap' = [heap EXCEPT !["grid"] = newGrid]
           /\ invalidCells' = validateGrid(newGrid)
    /\ hintsRemaining' = hintsRemaining - 1
    /\ op' = "provideHint"
    /\ pc' = "applied"
    /\ UNCHANGED <<solverVars, hintVars, genVars, conflicts, placement, ops, validSudoku,
                   ocrVars>>

\* provideHint of the component, after getHint(grid) returned a hint:
\* updateCell(row, col, value) replaces the grid by a copy with the hinted
\* cell written and runs validateGrid on the copy, then
\* setHintsRemaining(prev - 1)
ProvideHint ==
    /\ op = "hint"
    /\ pc = "done"
    /\ hint # NoHint
    /\ LET newGrid == [heap["grid"] EXCEPT ![hint.row][hint.col] = hint.value]
       IN  /\ heap' = [heap EXCEPT !["grid"] = newGrid]
           /\ invalidCells' = validateGrid(newGrid)
    /\ hintsRemaining' = hintsRemaining - 1
    /\ op' = "provideHint"
    /\ pc' = "applied"
    /\ UNCHANGED <<solverVars, hintVars, genVars, conflicts, placement, ops, validSudoku,
                   ocrVars>>

MaxHintCleared == 12

InitHint ==
    /\ op = "hint"
    /\ pc = "hint"
    /\ \E g \in InputGrids(MaxHintCleared) :
          /\ heap = [x \in {"grid"} |-> g]
          /\ grid0 = g
          /\ board0 = g
    /\ arg = "grid"
    /\ stack = <<>>
    /\ ret = FALSE
    /\ result = FALSE
    /\ cell = NoCell
    /\ hint = NoHint
    /\ difficulty = "none"
    /\ removed = 0
    /\ steps = 0
    /\ rng = 0
    /\ invalidCells = <<>>
    /\ conflicts = NoMarks
    /\ placement = NoPlacement
    /\ hintsRemaining = 3
    /\ validSudoku = <<>>
    /\ ops = 0
    /\ worker = NoWorker
    /\ workers = <<>>
    /\ calls = <<>>

NextHint ==
    \/ HintNone
    \/ HintChoose
    \/ Solver
    \/ HintReturn
    \/ ProvideHint

SpecHint == InitHint /\ [][NextHint]_vars

----------------------------------------------------------------------------
(* generateSudoku *)

\* Math.random() is a seeded pseudo-random stream: a congruential generator
\* whose state x stands for the number x / RngM of [0, 1).
RngM == 65537
RngA == 75
RngC == 74

RandomNext(x) == (RngA * x + RngC) % RngM

\* Math.floor(Math.random() * 9), for the state x reached by that call
RandomFloor(x, n) == (x * n) \div RngM

difficultyMapping == [easy |-> 36, medium |-> 27, hard |-> 18]

\* the `count` handed to removeNumbers
\* faulty variant: one cell too few
RemoveCount_OffByOne == N * N - difficultyMapping[difficulty] - 1

RemoveCount == N * N - difficultyMapping[difficulty]

\* createSolvedBoard: a new all-null board, then solveSudoku(board)
GenStart ==
    /\ op = "generate"
    /\ pc = "generate"
    /\ heap' = Alloc(heap, "solvedBoard", EmptyBoard)
    /\ CallSolve("solvedBoard", heap')
    /\ UNCHANGED <<op, hintVars, genVars, valVars>>

\* createSolvedBoard returns the board whatever solveSudoku returned; it is
\* cloned into puzzleBoard and removeNumbers starts
GenClone ==
    /\ op = "generate"
    /\ pc = "returned"
    /\ arg = "solvedBoard"
    /\ heap' = Alloc(heap, "puzzleBoard", heap["solvedBoard"])
    /\ removed' = 0
    /\ pc' = "remove"
    /\ UNCHANGED <<op, solverVars, hintVars, difficulty, steps, rng, valVars>>

DrawRow == RandomFloor(RandomNext(rng), N)
DrawCol == RandomFloor(RandomNext(RandomNext(rng)), N)

\* faulty variant: removed++ outside the if
RemoveMiss_Counts ==
    /\ pc = "remove"
    /\ removed < RemoveCount
    /\ heap["puzzleBoard"][DrawRow][DrawCol] = Null
    /\ rng' = RandomNext(RandomNext(rng))
    /\ steps' = steps + 1
    /\ removed' = removed + 1
    /\ UNCHANGED <<op, pc, heap, solverVars, hintVars, difficulty, valVars>>

\* one iteration of the loop of removeNumbers on a cell that is filled
RemoveHit ==
    /\ pc = "remove"
    /\ removed < RemoveCount
    /\ heap["puzzleBoard"][DrawRow][DrawCol] # Null
    /\ heap' = [heap EXCEPT !["puzzleBoard"][DrawRow][DrawCol] = Null]
    /\ removed' = removed + 1
    /\ rng' = RandomNext(RandomNext(rng))
    /\ steps' = steps + 1
    /\ UNCHANGED <<op, pc, solverVars, hintVars, difficulty, valVars>>

\* one iteration of the loop of removeNumbers on a cell already cleared
RemoveMiss ==
    /\ pc = "remove"
    /\ removed < RemoveCount
    /\ heap["puzzleBoard"][DrawRow][DrawCol] = Null
    /\ rng' = RandomNext(RandomNext(rng))
    /\ steps' = steps + 1
    /\ UNCHANGED <<op, pc, heap, solverVars, hintVars, difficulty, removed, valVars>>

\* removed = count: removeNumbers ends and generateSudoku returns puzzleBoard
GenReturn ==
    /\ pc = "remove"
    /\ ~ (removed < RemoveCount)
    /\ pc' = "generated"
    /\ UNCHANGED <<op, heap, solverVars, hintVars, genVars, valVars>>

\* solveBoard of the component on the generated grid: the grid is copied and
\* solveSudoku(gridCopy) is called
SolveBoard ==
    /\ op = "generate"
    /\ pc = "generated"
    /\ heap' = Alloc(heap, "gridCopy", heap["puzzleBoard"])
    /\ CallSolve("gridCopy", heap')
    /\ UNCHANGED <<op, hintVars, genVars, valVars>>

MaxSeed == 3

InitGenerate ==
    /\ op = "generate"
    /\ pc = "generate"
    /\ difficulty \in {"easy", "medium", "hard"}
    /\ rng \in 1 .. MaxSeed
    /\ heap = [x \in {"grid"} |-> EmptyBoard]
    /\ arg = "grid"
    /\ board0 = EmptyBoard
    /\ grid0 = EmptyBoard
    /\ stack = <<>>
    /\ ret = FALSE
    /\ result = FALSE
    /\ cell = NoCell
    /\ hint = NoHint
    /\ removed = 0
    /\ steps = 0
    /\ invalidCells = <<>>
    /\ conflicts = NoMarks
    /\ placement = NoPlacement
    /\ hintsRemaining = 3
    /\ validSudoku = <<>>
    /\ ops = 0
    /\ worker = NoWorker
    /\ workers = <<>>
    /\ calls = <<>>

NextGenerate ==
    \/ GenStart
    \/ Solver
    \/ GenClone
    \/ RemoveHit
    \/ RemoveMiss
    \/ GenReturn
    \/ SolveBoard

SpecGenerate == InitGenerate /\ [][NextGenerate]_vars

----------------------------------------------------------------------------
(* cell edits of the component, followed by validation *)

\* updateCell of the component: the grid is replaced by a copy with one cell
\* changed, and validateGrid runs on the copy (a matrix findConflicts
\* returned for the former grid is dropped)
UpdateCell(row, col, value) ==
    /\ op = "validate"
    /\ LET newGrid == [heap["grid"] EXCEPT ![row][col] = value]
       IN  /\ heap' = [heap EXCEPT !["grid"] = newGrid]
           /\ invalidCells' = validateGrid(newGrid)
    /\ conflicts' = NoMarks
    /\ pc' = "edited"
    /\ UNCHANGED <<op, solverVars, hintVars, genVars, placement, compVars, ocrVars>>

\* findConflicts applied to the current grid
FindConflicts ==
    /\ op = "validate"
    /\ pc = "edited"
    /\ conflicts' = findConflicts(heap["grid"])
    /\ pc' = "checked"
    /\ UNCHANGED <<op, heap, solverVars, hintVars, genVars, invalidCells, placement, compVars, ocrVars>>

\* the cells edited and the digits typed; the grid is the all-null grid of a
\* new component or a full valid board
EditCells == {<<0, 0>>, <<0, 1>>, <<1, 1>>, <<0, 4>>}
EditValues == {Null, 5, 3}

InitValidate ==
    /\ op = "validate"
    /\ pc = "edited"
    /\ \E g \in {EmptyBoard, BaseBoard} :
          /\ heap = [x \in {"grid"} |-> g]
          /\ grid0 = g
          /\ board0 = g
          /\ invalidCells = validateGrid(g)
    /\ conflicts = NoMarks
    /\ placement = NoPlacement
    /\ hintsRemaining = 3
    /\ validSudoku = <<>>
    /\ ops = 0
    /\ worker = NoWorker
    /\ workers = <<>>
    /\ calls = <<>>
    /\ arg = "grid"
    /\ stack = <<>>
    /\ ret = FALSE
    /\ result = FALSE
    /\ cell = NoCell
    /\ hint = NoHint
    /\ difficulty = "none"
    /\ removed = 0
    /\ steps = 0
    /\ rng = 0

EditCell == \E p \in EditCells, v \in EditValues : UpdateCell(p[1], p[2], v)

NextValidate ==
    \/ EditCell
    \/ FindConflicts

SpecValidate == InitValidate /\ [][NextValidate]_vars

----------------------------------------------------------------------------
(* Sudoku rules, stated over the three kinds of groups *)

RowOf(r) == {<<r, c>> : c \in Idx}
ColOf(c) == {<<r, c>> : r \in Idx}
BoxOf(k) == {<<Box * (k \div Box) + i, Box * (k % Box) + j>> : i, j \in 0 .. (Box - 1)}
Groups == {RowOf(r) : r \in Idx} \cup {ColOf(c) : c \in Idx} \cup {BoxOf(k) : k \in Idx}

SamePeerGroup(p, q) ==
    \/ p[1] = q[1]
    \/ p[2] = q[2]
    \/ (p[1] \div Box = q[1] \div Box /\ p[2] \div Box = q[2] \div Box)

\* p is non-empty and another cell of its row, column or box holds its value
InConflict(b, p) ==
    /\ At(b, p) # Null
    /\ \E q \in Cells : q # p /\ SamePeerGroup(p, q) /\ At(b, q) = At(b, p)

ConflictSet(b) == {p \in Cells : InConflict(b, p)}
ConflictFree(b) == \A p \in Cells : ~ InConflict(b, p)
IsFull(b) == \A p \in Cells : At(b, p) # Null
EmptyCellsOf(b) == {p \in Cells : At(b, p) = Null}

\* every row, column and box holds each digit exactly once
IsSolved(b) ==
    \A g \in Groups : \A d \in Digits : Cardinality({p \in g : At(b, p) = d}) = 1

\* a complete rule-satisfying assignment of the empty cells of b exists
\* (the empty cells are taken last first, a digit that repeats a peer is
\* dropped at once since no extension of it can satisfy the rules)
RECURSIVE HasCompletion(_)
HasCompletion(b) ==
    LET E == EmptyCellsOf(b)
    IN  IF E = {} THEN IsSolved(b)
        ELSE LET p == CHOOSE p \in E : \A q \in E : N * q[1] + q[2] <= N * p[1] + p[2]
             IN  \E d \in Digits :
                    LET b2 == [b EXCEPT ![p[1]][p[2]] = d]
                    IN  ~ InConflict(b2, p) /\ HasCompletion(b2)

Returned == op = "solve" /\ pc = "returned"

----------------------------------------------------------------------------
\* C1: on a conflict-free input, when solveSudoku returns true the grid has
\* no empty cell and every row, column and box holds each digit 1..9 exactly
\* once.
C1_SolvedOnTrue ==
    (Returned /\ result /\ ConflictFree(board0)) => (IsFull(board) /\ IsSolved(board))

\* a conflict-free input with empty cells was searched with backtracking and
\* solveSudoku returned true
C1_Witness ==
    /\ Returned /\ result
    /\ ConflictFree(board0)
    /\ Cardinality(EmptyCellsOf(board0)) >= 18
    /\ \E p \in EmptyCellsOf(board0) : At(board, p) # At(BaseBoard, p)

\* C2: on a conflict-free input, solveSudoku returns true exactly when a
\* complete rule-satisfying assignment of the empty cells exists.
C2_Exhaustive ==
    (Returned /\ ConflictFree(board0)) => (result <=> HasCompletion(board0))

\* a conflict-free input with empty cells and no completion: false returned
C2_Witness ==
    /\ Returned /\ ~ result
    /\ ConflictFree(board0)
    /\ Cardinality(EmptyCellsOf(board0)) >= 10

\* C3: a cell that is non-empty at the call holds the same value in every
\* state of the search and at the return.
C3_CluesKept ==
    op = "solve" => \A p \in Cells : At(board0, p) # Null => At(board, p) = At(board0, p)

\* a search on a grid with clues, some of them colliding, wrote cells and
\* has returned
C3_Witness ==
    /\ Returned
    /\ board # board0
    /\ \E p \in Cells : At(board0, p) # Null /\ InConflict(board0, p)

\* C4: when solveSudoku returns false the grid equals its content at the call.
C4_RestoredOnFalse ==
    (Returned /\ ~ result) => board = board0

\* false was returned after a search that had placed digits
C4_Witness ==
    /\ Returned /\ ~ result
    /\ Cardinality(EmptyCellsOf(board0)) >= 10
    /\ isValidPlacement(board0, findEmptyCell(board0).row, findEmptyCell(board0).col, 1)

----------------------------------------------------------------------------
HintDone == op = "hint" /\ pc = "done"

\* C8: a hint returned by getHint names a cell that is empty in the grid
\* passed in, and its value is the digit of that cell in the grid that
\* solveSudoku produced from a copy of the input: a full grid that keeps
\* every filled cell of the input.
C8_HintFromSolvedCopy ==
    (HintDone /\ hint # NoHint) =>
        /\ At(grid0, <<hint.row, hint.col>>) = Null
        /\ hint.value \in Digits
        /\ board0 = grid0
        /\ result
        /\ hint.value = At(heap["tempGrid"], <<hint.row, hint.col>>)
        /\ IsFull(heap["tempGrid"])
        /\ \A p \in Cells : At(grid0, p) # Null => At(heap["tempGrid"], p) = At(grid0, p)

\* a hint was returned for a cell off the diagonal of a grid that has several
\* empty cells
C8_Witness ==
    /\ HintDone /\ hint # NoHint
    /\ hint.row # hint.col
    /\ Cardinality(EmptyCellsOf(grid0)) >= 10

C10_GridUntouched ==
    op = "hint" => heap["grid"] = grid0

\* the solver failed on the clone after writing to it, and null was returned
C10_Witness ==
    /\ HintDone /\ hint = NoHint
    /\ ~ result
    /\ "tempGrid" \in DOMAIN heap
    /\ LET e == findEmptyCell(grid0)
       IN  \E d \in Digits : isValidPlacement(grid0, e.row, e.col, d)

----------------------------------------------------------------------------
Generated ==
    /\ op = "generate"
    /\ pc = "generated" \/ (pc \in {"call", "loop", "return", "returned"} /\ arg = "gridCopy")

FilledCount(b) == Cardinality({p \in Cells : At(b, p) # Null})

\* C6: the grid generateSudoku returns has exactly 36 (easy), 27 (medium) or
\* 18 (hard) filled cells, and no two filled cells of a row, column or box
\* hold the same digit.
C6_ClueCountAndNoConflict ==
    (op = "generate" /\ pc = "generated") =>
        /\ FilledCount(heap["puzzleBoard"]) =
              (CASE difficulty = "easy" -> 36
                 [] difficulty = "medium" -> 27
                 [] difficulty = "hard" -> 18)
        /\ ConflictFree(heap["puzzleBoard"])
        /\ validateGrid(heap["puzzleBoard"]) = <<>>

\* a hard puzzle was returned after draws that fell on cleared cells
C6_Witness ==
    /\ op = "generate" /\ pc = "generated"
    /\ difficulty = "hard"
    /\ steps > removed

\* C7: the returned grid differs from the solved board only by cleared
\* cells, the solved board being a full rule-satisfying grid, and
\* solveSudoku returns true on it.
C7_ClearedOnlyAndSolvable ==
    Generated =>
        /\ \A p \in Cells :
              At(heap["puzzleBoard"], p) \in {Null, At(heap["solvedBoard"], p)}
        /\ IsSolved(heap["solvedBoard"])
        /\ (pc = "returned" => result)

\* solveSudoku has returned true on a generated medium puzzle
C7_Witness ==
    /\ Generated
    /\ pc = "returned"
    /\ result
    /\ difficulty = "medium"
    /\ EmptyCellsOf(board0) # {}

----------------------------------------------------------------------------
InSeq(seq, x) == \E k \in 1 .. Len(seq) : seq[k] = x

\* C5: the validator flags a cell exactly when the cell is non-empty and
\* another cell of its row, column or box holds the same value; a flagged
\* coordinate is listed once.  Stated of the array of validateGrid and of
\* the matrix of findConflicts.
C5_FlagsExactlyConflicts ==
    op = "validate" =>
        /\ \A p \in Cells :
              InSeq(invalidCells, RC(p[1], p[2])) <=> InConflict(heap["grid"], p)
        /\ \A k, m \in 1 .. Len(invalidCells) :
              invalidCells[k] = invalidCells[m] => k = m
        /\ pc = "checked" =>
              \A p \in Cells : conflicts[p[1]][p[2]] <=> InConflict(heap["grid"], p)

\* two 5s in one box, in different rows and columns, and no other entry:
\* exactly these two cells are flagged
C5_Witness ==
    /\ op = "validate" /\ pc = "checked"
    /\ heap["grid"] = [EmptyBoard EXCEPT ![0][0] = 5, ![1][1] = 5]
    /\ Len(invalidCells) = 2
    /\ conflicts[0][0] /\ conflicts[1][1]

----------------------------------------------------------------------------
(* isValidPlacement called on its own, on any cell and digit *)

\* the grids it is called on: the first cells of BaseBoard only, or all but
\* its last cells, one cell possibly overwritten
MaxPlacementKept == 2

PlacementGrids ==
    LET base == {ClearSuffix(BaseBoard, N * N - k) : k \in 0 .. MaxPlacementKept}
                \cup {ClearSuffix(BaseBoard, k) : k \in 0 .. MaxPlacementKept}
    IN  base \cup {[b EXCEPT ![t[1]][t[2]] = d] :
                     b \in base, t \in TwistCells, d \in Digits}

InitPlacement ==
    /\ op = "placement"
    /\ pc = "placement"
    /\ \E g \in PlacementGrids :
          /\ heap = [x \in {"grid"} |-> g]
          /\ board0 = g
          /\ grid0 = g
    /\ arg = "grid"
    /\ stack = <<>>
    /\ ret = FALSE
    /\ result = FALSE
    /\ cell = NoCell
    /\ hint = NoHint
    /\ difficulty = "none"
    /\ removed = 0
    /\ steps = 0
    /\ rng = 0
    /\ invalidCells = <<>>
    /\ conflicts = NoMarks
    /\ placement = NoPlacement
    /\ hintsRemaining = 3
    /\ validSudoku = <<>>
    /\ ops = 0
    /\ worker = NoWorker
    /\ workers = <<>>
    /\ calls = <<>>

\* one call isValidPlacement(grid, row, col, num); the function has no
\* assignment to board, so the grid object keeps its content
CheckPlacement ==
    /\ op = "placement"
    /\ pc = "placement"
    /\ \E row \in Idx, col \in Idx, num \in Digits :
          placement' = [row |-> row, col |-> col, num |-> num,
                        valid |-> isValidPlacement(heap["grid"], row, col, num)]
    /\ pc' = "placed"
    /\ UNCHANGED <<op, heap, solverVars, hintVars, genVars, invalidCells, conflicts, compVars, ocrVars>>

NextPlacement == CheckPlacement

SpecPlacement == InitPlacement /\ [][NextPlacement]_vars

\* C11: isValidPlacement(board, row, col, num) returns true exactly when num
\* is in none of the 9 cells of the row, none of the 9 cells of the column
\* and none of the 9 cells of the 3x3 box of (row, col), the target cell
\* counted in all three; and the board is the same after the call.
C11_TrueIffAbsentFromGroups ==
    (op = "placement" /\ pc = "placed") =>
        /\ placement.valid <=>
              \A p \in RowOf(placement.row) \cup ColOf(placement.col)
                        \cup BoxOf(Box * (placement.row \div Box)
                                   + placement.col \div Box) :
                  At(heap["grid"], p) # placement.num
        /\ heap["grid"] = grid0

\* a call that returns false although no other cell of the three groups
\* holds num: the target cell holds it
C11_Witness ==
    /\ op = "placement" /\ pc = "placed"
    /\ ~ placement.valid
    /\ heap["grid"][placement.row][placement.col] = placement.num
    /\ ~ InConflict(heap["grid"], <<placement.row, placement.col>>)

----------------------------------------------------------------------------
----------------------------------------------------------------------------
HintApplied == op = "provideHint" /\ pc = "applied"

\* C13: when getHint returns a hint (row, col, value) on a grid with N empty
\* cells, the grid with value written into (row, col) has exactly N - 1
\* empty cells, differs from the input in that cell only, and the validator
\* does not flag (row, col): no other cell of its row, column or box holds
\* value. This holds also when the input already holds conflicts elsewhere.
C13_HintAppliedNotFlagged ==
    HintApplied =>
        /\ Cardinality(EmptyCellsOf(heap["grid"])) = Cardinality(EmptyCellsOf(grid0)) - 1
        /\ heap["grid"] = [grid0 EXCEPT ![hint.row][hint.col] = hint.value]
        /\ ~ InSeq(invalidCells, RC(hint.row, hint.col))
        /\ ~ InConflict(heap["grid"], <<hint.row, hint.col>>)

\* a hint applied to a grid that held a conflict: the validator flags the
\* cells of that conflict and not the hinted cell
C13_Witness ==
    /\ HintApplied
    /\ ~ ConflictFree(grid0)
    /\ Len(invalidCells) >= 2
    /\ Cardinality(EmptyCellsOf(grid0)) >= 2

----------------------------------------------------------------------------
\* createSolvedBoard: solveSudoku has returned on the all-null board
SolvedBoardReturned == op = "generate" /\ pc = "returned" /\ arg = "solvedBoard"

\* C14: solveSudoku on the all-empty grid returns true, the board it leaves
\* is the same one in every run (the board SolvedRows), and the validator
\* reports no conflict on it.
C14_EmptyGridSolvedSameBoard ==
    SolvedBoardReturned =>
        /\ board0 = EmptyBoard
        /\ result
        /\ heap["solvedBoard"] = BaseBoard
        /\ validateGrid(heap["solvedBoard"]) = <<>>
        /\ findConflicts(heap["solvedBoard"]) = NoMarks

\* the search on the empty grid has returned, after backtracking: the digit
\* in the first cell of the fourth row is not the first one that was tried
C14_Witness ==
    /\ SolvedBoardReturned
    /\ result
    /\ IsFull(heap["solvedBoard"])
    /\ heap["solvedBoard"][3][0] # 1

----------------------------------------------------------------------------
Removing == op = "generate" /\ pc \in {"remove", "generated"}

\* C15 as stated: every step of the removal loop picks a still-filled cell
\* and clears it, so the loop has made as many steps as it has cleared
\* cells and ends after exactly 81 - clueCount steps.
C15_EveryStepClears ==
    Removing => steps = removed

\* C15: the removal loop counts exactly the cells it has cleared: a step
\* whose draw falls on a filled cell clears it and counts it, a step whose
\* draw falls on a cell already cleared changes nothing, so the loop has
\* made at least as many steps as it has cleared cells; it ends when the
\* count reaches 81 - clueCount, with exactly that many cells cleared, after
\* at least that many steps.
C15_CountsClearedCells ==
    Removing =>
        LET target == CASE difficulty = "easy" -> 45
                        [] difficulty = "medium" -> 54
                        [] difficulty = "hard" -> 63
        IN  /\ removed = Cardinality(EmptyCellsOf(heap["puzzleBoard"]))
            /\ removed <= steps
            /\ removed <= target
            /\ (pc = "generated" => removed = target /\ steps >= target)

\* a medium puzzle returned after more loop steps than cells cleared
C15_Witness ==
    /\ op = "generate" /\ pc = "generated"
    /\ difficulty = "medium"
    /\ removed = 54
    /\ steps > 54

----------------------------------------------------------------------------
(* solveSudoku called on an input grid whose filled cells are free of       *)
(* conflicts                                                                *)

\* no digit is twice in a row, a column or a box
NoDuplicate(b) ==
    \A g \in Groups : \A d \in Digits : Cardinality({p \in g : At(b, p) = d}) <= 1

InitSolveFree ==
    /\ InitSolve
    /\ ConflictFree(heap["grid"])

SpecSolveFree == InitSolveFree /\ [][NextSolve]_vars

\* C17: when solveSudoku is started on a conflict-free grid, the grid is
\* conflict-free in every state of the search, after each placement and
\* after each backtrack.
C17_SearchStaysConflictFree ==
    (op = "solve" /\ NoDuplicate(board0)) => NoDuplicate(board)

\* in the middle of a search: digits placed, and a cell just reset by a
\* backtrack while earlier placements are still on the board
C17_Witness ==
    /\ op = "solve" /\ pc = "loop"
    /\ NoDuplicate(board0)
    /\ Len(stack) >= 2
    /\ board[Top.row][Top.col] = Null
    /\ Top.num > 1
    /\ \E d \in 1 .. (Top.num - 1) : isValidPlacement(board, Top.row, Top.col, d)

----------------------------------------------------------------------------
(* solveSudoku runs on: sequential code, a step that can be taken is taken  *)

SpecSolveFair == InitSolve /\ [][NextSolve]_vars /\ WF_vars(NextSolve)

\* invocations of solveSudoku in progress: one per frame inside its loop,
\* and the one at its entry
Invocations == Len(stack) + (IF pc = "call" THEN 1 ELSE 0)

\* recursive calls nested below the outermost invocation
RecursionDepth == IF Invocations = 0 THEN 0 ELSE Invocations - 1

\* C18: solveSudoku terminates on every input grid, and its recursion depth
\* (the number of recursive calls nested inside the outermost invocation) is
\* never more than the number of cells that were empty at the call, hence
\* never more than 81.
C18_TerminatesWithinDepth ==
    /\ [](op = "solve" =>
            /\ RecursionDepth <= Cardinality(EmptyCellsOf(board0))
            /\ RecursionDepth <= N * N)
    /\ <>(pc = "returned")

\* the deepest point of a search that had to backtrack: as many recursive
\* calls nested as cells were empty, the innermost at its entry
C18_Witness ==
    /\ op = "solve" /\ pc = "call"
    /\ Cardinality(EmptyCellsOf(board0)) >= 2
    /\ RecursionDepth = Cardinality(EmptyCellsOf(board0))
    /\ \E k \in 1 .. Len(stack) : stack[k].num > 1

----------------------------------------------------------------------------
\* the first empty cell of b in row-major order (b has one)
FirstEmpty(b) ==
    CHOOSE p \in EmptyCellsOf(b) :
        \A q \in EmptyCellsOf(b) : N * p[1] + p[2] <= N * q[1] + q[2]

\* b has a rule-satisfying completion that is lexicographically smaller than
\* the full grid t, comparing the empty cells of b in row-major order: the
\* two agree up to some empty cell, where the completion has a smaller digit
RECURSIVE SmallerCompletion(_, _)
SmallerCompletion(b, t) ==
    IF EmptyCellsOf(b) = {} THEN FALSE
    ELSE LET p == FirstEmpty(b)
         IN  \/ \E d \in 1 .. (At(t, p) - 1) :
                   LET b2 == [b EXCEPT ![p[1]][p[2]] = d]
                   IN  ~ InConflict(b2, p) /\ HasCompletion(b2)
             \/ SmallerCompletion([b EXCEPT ![p[1]][p[2]] = At(t, p)], t)

\* C19: when solveSudoku returns true on a conflict-free grid, the completed
\* grid is a valid completion of the input and no valid completion of the
\* input is lexicographically smaller, the originally empty cells compared
\* in row-major order.
C19_LeastCompletion ==
    (Returned /\ result /\ NoDuplicate(board0)) =>
        /\ IsSolved(board)
        /\ \A p \in Cells : At(board0, p) # Null => At(board, p) = At(board0, p)
        /\ ~ SmallerCompletion(board0, board)

\* true returned on a conflict-free grid that has another completion, a
\* larger one: the digit of the first empty cell can be raised
C19_Witness ==
    /\ Returned /\ result
    /\ NoDuplicate(board0)
    /\ EmptyCellsOf(board0) # {}
    /\ LET p == FirstEmpty(board0)
       IN  \E d \in (At(board, p) + 1) .. N :
              LET b2 == [board0 EXCEPT ![p[1]][p[2]] = d]
              IN  ~ InConflict(b2, p) /\ HasCompletion(b2)

----------------------------------------------------------------------------
\* g with digit d in its empty cell p has a rule-satisfying completion
Feasible(g, p, d) ==
    LET g2 == [g EXCEPT ![p[1]][p[2]] = d]
    IN  ~ InConflict(g2, p) /\ HasCompletion(g2)

\* g is conflict-free and has exactly one completion: each empty cell has
\* exactly one digit with which a completion exists
UniquelySolvable(g) ==
    /\ NoDuplicate(g)
    /\ \A p \in EmptyCellsOf(g) :
          Cardinality({d \in Digits : Feasible(g, p, d)}) = 1

\* C20: on a uniquely solvable grid the value of a hint is fixed by the grid
\* and the chosen cell alone (it is the digit of that cell in the one
\* completion), so two getHint calls that choose the same cell return the
\* same value; the calls differ in the chosen cell only, which is the cell
\* the hint names.
C20_ValueFixedByGridAndCell ==
    (HintDone /\ cell # NoCell /\ UniquelySolvable(grid0)) =>
        /\ hint # NoHint
        /\ hint.row = cell.row /\ hint.col = cell.col
        /\ Feasible(grid0, <<cell.row, cell.col>>, hint.value)

\* a hint on a uniquely solvable grid with several empty cells, for a cell
\* other than the first one, whose digit differs from the first one's
C20_Witness ==
    /\ HintDone /\ hint # NoHint
    /\ UniquelySolvable(grid0)
    /\ Len(emptyCells(grid0)) >= 3
    /\ cell # emptyCells(grid0)[1]
    /\ LET first == emptyCells(grid0)[1]
       IN  heap["tempGrid"][first.row][first.col] # hint.value

----------------------------------------------------------------------------
(* The SudokuGrid component: its state is the grid, invalidCells,           *)
(* hintsRemaining and the difficulty; each user operation runs one handler  *)
(* to its end before the next one starts (handlers are synchronous; the     *)
(* import handler sets the state in one piece after the OCR result came).   *)

\* the sessions explored: at most MaxOps user operations
MaxOps == 2

\* the user asks for a hint on grids with at most MaxHintAsked empty cells
MaxHintAsked == 4

\* the grids the OCR pipeline delivers (0 for an empty cell): BaseBoard with
\* its last cells empty, one cell possibly overwritten
MaxImportCleared == 2

OcrGrids ==
    LET base == {ClearSuffix(BaseBoard, k) : k \in 0 .. MaxImportCleared}
    IN  base \cup {[b EXCEPT ![t[1]][t[2]] = d] :
                     b \in base, t \in TwistCells, d \in Digits}

\* no handler is running
Idle == pc \in {"idle", "applied"}

InitComponent ==
    /\ op = "component"
    /\ pc = "idle"
    /\ heap = [x \in {"grid"} |-> EmptyBoard]
    /\ invalidCells = <<>>
    /\ hintsRemaining = 3
    /\ validSudoku = <<>>
    /\ difficulty = "easy"
    /\ ops = 0
    /\ rng = 1
    /\ arg = "grid"
    /\ board0 = EmptyBoard
    /\ grid0 = EmptyBoard
    /\ stack = <<>>
    /\ ret = FALSE
    /\ result = FALSE
    /\ cell = NoCell
    /\ hint = NoHint
    /\ removed = 0
    /\ steps = 0
    /\ conflicts = NoMarks
    /\ placement = NoPlacement
    /\ worker = NoWorker
    /\ workers = <<>>
    /\ calls = <<>>

\* the difficulty select: setDifficulty(e.target.value)
SetDifficulty ==
    /\ Idle
    /\ ops < MaxOps
    /\ \E d \in {"easy", "medium", "hard"} \ {difficulty} : difficulty' = d
    /\ ops' = ops + 1
    /\ op' = "component"
    /\ pc' = "idle"
    /\ UNCHANGED <<heap, solverVars, hintVars, removed, steps, rng, invalidCells,
                   conflicts, placement, hintsRemaining, validSudoku,
                   ocrVars>>

\* a cell input changed: updateCell(rowIndex, colIndex, value), which sets
\* the grid to a copy with the cell written and runs validateGrid on it
CellInput ==
    /\ Idle
    /\ ops < MaxOps
    /\ \E p \in EditCells, value \in EditValues :
          LET newGrid == [heap["grid"] EXCEPT ![p[1]][p[2]] = value]
          IN  /\ heap' = [heap EXCEPT !["grid"] = newGrid]
              /\ invalidCells' = validateGrid(newGrid)
    /\ ops' = ops + 1
    /\ op' = "component"
    /\ pc' = "idle"
    /\ UNCHANGED <<solverVars, hintVars, genVars, conflicts, placement,
                   hintsRemaining, validSudoku,
                   ocrVars>>

\* handleImageUpload with a grid extracted: the cells 0 become null, the
\* grid is set, the hints are reset and validateGrid runs on the new grid
ImageUpload ==
    /\ Idle
    /\ ops < MaxOps
    /\ \E g \in OcrGrids :
          LET convertedGrid == [r \in Idx |-> [c \in Idx |->
                                   IF g[r][c] = 0 THEN Null ELSE g[r][c]]]
          IN  /\ heap' = [heap EXCEPT !["grid"] = convertedGrid]
              /\ invalidCells' = validateGrid(convertedGrid)
    /\ hintsRemaining' = 3
    /\ ops' = ops + 1
    /\ op' = "component"
    /\ pc' = "idle"
    /\ UNCHANGED <<solverVars, hintVars, genVars, conflicts, placement, validSudoku,
                   ocrVars>>

\* solveBoard: the grid is copied and solveSudoku(gridCopy) is called
SolveBoardCall ==
    /\ Idle
    /\ ops < MaxOps
    /\ heap' = Alloc(heap, "gridCopy", heap["grid"])
    /\ CallSolve("gridCopy", heap')
    /\ ops' = ops + 1
    /\ op' = "solveBoard"
    /\ UNCHANGED <<hintVars, genVars, invalidCells, conflicts, placement,
                   hintsRemaining, validSudoku,
                   ocrVars>>

\* solveBoard, solveSudoku(gridCopy) has returned: setGrid(gridCopy) if it
\* returned true (validateGrid is not called), an alert otherwise; the
\* other grid objects are garbage
SolveBoardDone ==
    /\ op = "solveBoard"
    /\ pc = "returned"
    /\ heap' = [x \in {"grid"} |-> IF result THEN heap["gridCopy"] ELSE heap["grid"]]
    /\ op' = "component"
    /\ pc' = "idle"
    /\ UNCHANGED <<solverVars, hintVars, genVars, valVars>>

\* provideHint with hints remaining: getHint(grid) is called
ProvideHintCall ==
    /\ Idle
    /\ ops < MaxOps
    /\ hintsRemaining > 0
    /\ Cardinality(EmptyCellsOf(heap["grid"])) <= MaxHintAsked
    /\ grid0' = heap["grid"]
    /\ cell' = NoCell
    /\ hint' = NoHint
    /\ ops' = ops + 1
    /\ op' = "hint"
    /\ pc' = "hint"
    /\ UNCHANGED <<heap, solverVars, genVars, invalidCells, conflicts, placement,
                   hintsRemaining, validSudoku,
                   ocrVars>>

\* provideHint, getHint returned null: alert('No hints available.')
ProvideHintNone ==
    /\ op = "hint"
    /\ pc = "done"
    /\ hint = NoHint
    /\ op' = "component"
    /\ pc' = "idle"
    /\ UNCHANGED <<heap, solverVars, hintVars, genVars, valVars>>

\* generatePuzzle: generateSudoku(difficulty) is called
GeneratePuzzleCall ==
    /\ Idle
    /\ ops < MaxOps
    /\ ops' = ops + 1
    /\ op' = "generate"
    /\ pc' = "generate"
    /\ UNCHANGED <<heap, solverVars, hintVars, genVars, invalidCells, conflicts,
                   placement, hintsRemaining, validSudoku,
                   ocrVars>>

\* generatePuzzle, generateSudoku has returned newGrid: setGrid(newGrid),
\* setHintsRemaining(3), validateGrid(newGrid); the other grid objects are
\* garbage
GeneratePuzzleDone ==
    /\ op = "generate"
    /\ pc = "generated"
    /\ LET newGrid == heap["puzzleBoard"]
       IN  /\ heap' = [x \in {"grid"} |-> newGrid]
           /\ invalidCells' = validateGrid(newGrid)
    /\ hintsRemaining' = 3
    /\ op' = "component"
    /\ pc' = "idle"
    /\ UNCHANGED <<solverVars, hintVars, genVars, conflicts, placement, ops, validSudoku,
                   ocrVars>>

NextComponent ==
    \/ SetDifficulty
    \/ CellInput
    \/ ImageUpload
    \/ SolveBoardCall
    \/ SolveBoardDone
    \/ ProvideHintCall
    \/ HintNone
    \/ HintChoose
    \/ HintReturn
    \/ ProvideHint
    \/ ProvideHintNone
    \/ GeneratePuzzleCall
    \/ GenStart
    \/ GenClone
    \/ RemoveHit
    \/ RemoveMiss
    \/ GenReturn
    \/ GeneratePuzzleDone
    \/ Solver

SpecComponent == InitComponent /\ [][NextComponent]_vars

\* the cells listed in a sequence of {row, col} records
CellsIn(seq) == {<<seq[k].row, seq[k].col>> : k \in 1 .. Len(seq)}

\* C21: after any sequence of user operations (cell edit, generate puzzle,
\* solve board, apply hint, import grid) the stored invalidCells holds
\* exactly the cells validateGrid reports for the grid now displayed, which
\* are the cells that share their digit with a peer; this also after
\* solveBoard, which replaces the grid without running validateGrid.
C21_InvalidCellsMatchGrid ==
    Idle =>
        /\ CellsIn(invalidCells) = CellsIn(validateGrid(heap["grid"]))
        /\ CellsIn(invalidCells) = ConflictSet(heap["grid"])

\* solveBoard has replaced a grid that held a conflict and had empty cells by
\* the full grid the solver made of it; invalidCells dates from the import
C21_Witness ==
    /\ op = "component" /\ pc = "idle"
    /\ arg = "gridCopy" /\ result
    /\ EmptyCellsOf(board0) # {}
    /\ IsFull(heap["grid"])
    /\ heap["grid"] # board0
    /\ Len(invalidCells) >= 2

----------------------------------------------------------------------------
(* the three conflict detectors on one grid *)

\* updateCell of the second copy of the component: its validateGrid pushes
\* single cells
UpdateCellSinglePush(row, col, value) ==
    /\ op = "validate"
    /\ LET newGrid == [heap["grid"] EXCEPT ![row][col] = value]
       IN  /\ heap' = [heap EXCEPT !["grid"] = newGrid]
           /\ invalidCells' = validateGridSinglePush(newGrid)
    /\ conflicts' = NoMarks
    /\ pc' = "edited"
    /\ UNCHANGED <<op, solverVars, hintVars, genVars, placement, compVars, ocrVars>>

EditCellSinglePush ==
    \E p \in EditCells, v \in EditValues : UpdateCellSinglePush(p[1], p[2], v)

\* isValidSudoku applied to the grid findConflicts was applied to
IsValidSudoku ==
    /\ op = "validate"
    /\ pc = "checked"
    /\ validSudoku' = <<isValidSudoku(heap["grid"])>>
    /\ pc' = "judged"
    /\ UNCHANGED <<op, heap, solverVars, hintVars, genVars, invalidCells, conflicts,
                   placement, hintsRemaining, ops, ocrVars>>

NextDetectors ==
    \/ EditCell
    \/ EditCellSinglePush
    \/ FindConflicts
    \/ IsValidSudoku

SpecDetectors == InitValidate /\ [][NextDetectors]_vars

Judged == op = "validate" /\ pc = "judged"

\* C22: on one grid, findConflicts marks a cell true exactly when the cell
\* is in the invalidCells of validateGrid, in the pair-pushing version and
\* in the single-push version alike, and isValidSudoku returns true exactly
\* when invalidCells is empty, full grid or not.
C22_DetectorsAgree ==
    Judged =>
        /\ \A p \in Cells :
              conflicts[p[1]][p[2]] <=> InSeq(invalidCells, RC(p[1], p[2]))
        /\ CellsIn(validateGrid(heap["grid"])) = CellsIn(validateGridSinglePush(heap["grid"]))
        /\ CellsIn(invalidCells) = CellsIn(validateGrid(heap["grid"]))
        /\ validSudoku = <<TRUE>> <=> invalidCells = <<>>

\* an incomplete grid with a repeated value: the two versions of validateGrid
\* list the flagged cells in different orders, findConflicts marks some cell
\* and isValidSudoku has returned false
C22_Witness ==
    /\ Judged
    /\ EmptyCellsOf(heap["grid"]) # {}
    /\ validateGrid(heap["grid"]) # validateGridSinglePush(heap["grid"])
    /\ \E p \in Cells : conflicts[p[1]][p[2]]
    /\ validSudoku = <<FALSE>>

\* an incomplete grid without a repeated value: nothing is flagged and
\* isValidSudoku has returned true
C22_WitnessIncompleteValid ==
    /\ Judged
    /\ EmptyCellsOf(heap["grid"]) # {}
    /\ FilledCount(heap["grid"]) >= 2
    /\ invalidCells = <<>>
    /\ validSudoku = <<TRUE>>

----------------------------------------------------------------------------
(* the OCR worker: initOCRWorker called by the mount effect of SudokuGrid and
   by performOCR for every uploaded image.  Between two awaits a call runs
   without interruption; at an await any other call may run.  worker is the
   module variable, workers[w] tells what worker w has completed, calls[c]
   is the c-th call of initOCRWorker: who made it, where it stands, the
   worker it created, the worker its pending load or reinitialize was
   called on, the worker it returned.  cleanupOCRWorker is exported and
   never called, it has no action. *)

MaxCalls == 3

NewWorker == [loaded |-> FALSE, reinitialized |-> FALSE]

\* initOCRWorker up to its first await, or to its return when worker is set:
\* if (!worker) Tesseract.createWorker() is called, else worker is returned
initOCRWorker(caller) ==
    /\ op = "ocr"
    /\ Len(calls) < MaxCalls
    /\ IF worker = NoWorker
       THEN /\ workers' = Append(workers, NewWorker)
            /\ calls' = Append(calls, [caller |-> caller, pc |-> "createWorker",
                                       created |-> Len(workers) + 1,
                                       target |-> NoWorker, returned |-> NoWorker])
       ELSE /\ workers' = workers
            /\ calls' = Append(calls, [caller |-> caller, pc |-> "returned",
                                       created |-> NoWorker,
                                       target |-> NoWorker, returned |-> worker])
    /\ UNCHANGED <<op, pc, heap, solverVars, hintVars, genVars, invalidCells, conflicts,
                   placement, compVars, worker>>

\* useEffect(() => { initializeOCR() }, []): the first call, made at mount
InitializeOCR ==
    /\ calls = <<>>
    /\ initOCRWorker("initializeOCR")

\* performOCR for an uploaded image: const currentWorker = await initOCRWorker()
PerformOCR ==
    /\ calls # <<>>
    /\ initOCRWorker("performOCR")

\* worker = await Tesseract.createWorker() resumes: the worker is assigned and
\* worker.load('eng') is called on it
CreateWorkerResolves(c) ==
    /\ op = "ocr"
    /\ calls[c].pc = "createWorker"
    /\ worker' = calls[c].created
    /\ calls' = [calls EXCEPT ![c].pc = "load", ![c].target = calls[c].created]
    /\ UNCHANGED <<op, pc, heap, solverVars, hintVars, genVars, invalidCells, conflicts,
                   placement, compVars, workers>>

\* await worker.load('eng') resumes: worker.reinitialize('eng') is called on
\* the worker the module variable holds now
LoadResolves(c) ==
    /\ op = "ocr"
    /\ calls[c].pc = "load"
    /\ workers' = [workers EXCEPT ![calls[c].target].loaded = TRUE]
    /\ calls' = [calls EXCEPT ![c].pc = "reinitialize", ![c].target = worker]
    /\ UNCHANGED <<op, pc, heap, solverVars, hintVars, genVars, invalidCells, conflicts,
                   placement, compVars, worker>>

\* await worker.reinitialize('eng') resumes: return worker
ReinitializeResolves(c) ==
    /\ op = "ocr"
    /\ calls[c].pc = "reinitialize"
    /\ workers' = [workers EXCEPT ![calls[c].target].reinitialized = TRUE]
    /\ calls' = [calls EXCEPT ![c].pc = "returned", ![c].returned = worker]
    /\ UNCHANGED <<op, pc, heap, solverVars, hintVars, genVars, invalidCells, conflicts,
                   placement, compVars, worker>>

\* an awaited promise rejects: catch (error) throws the Error of initOCRWorker
AwaitRejects(c) ==
    /\ op = "ocr"
    /\ calls[c].pc \in {"createWorker", "load", "reinitialize"}
    /\ calls' = [calls EXCEPT ![c].pc = "threw"]
    /\ UNCHANGED <<op, pc, heap, solverVars, hintVars, genVars, invalidCells, conflicts,
                   placement, compVars, worker, workers>>

\* performOCR resumes with the returned worker: currentWorker.recognize(image)
Recognize(c) ==
    /\ op = "ocr"
    /\ calls[c].caller = "performOCR"
    /\ calls[c].pc = "returned"
    /\ calls' = [calls EXCEPT ![c].pc = "recognize"]
    /\ UNCHANGED <<op, pc, heap, solverVars, hintVars, genVars, invalidCells, conflicts,
                   placement, compVars, worker, workers>>

InitOCR ==
    /\ op = "ocr"
    /\ pc = "idle"
    /\ worker = NoWorker
    /\ workers = <<>>
    /\ calls = <<>>
    /\ heap = [x \in {"grid"} |-> EmptyBoard]
    /\ grid0 = EmptyBoard
    /\ board0 = EmptyBoard
    /\ invalidCells = <<>>
    /\ conflicts = NoMarks
    /\ placement = NoPlacement
    /\ hintsRemaining = 3
    /\ validSudoku = <<>>
    /\ ops = 0
    /\ arg = "grid"
    /\ stack = <<>>
    /\ ret = FALSE
    /\ result = FALSE
    /\ cell = NoCell
    /\ hint = NoHint
    /\ difficulty = "easy"
    /\ removed = 0
    /\ steps = 0
    /\ rng = 0

NextOCR ==
    \/ InitializeOCR
    \/ PerformOCR
    \/ \E c \in 1 .. Len(calls) : CreateWorkerResolves(c)
    \/ \E c \in 1 .. Len(calls) : LoadResolves(c)
    \/ \E c \in 1 .. Len(calls) : ReinitializeResolves(c)
    \/ \E c \in 1 .. Len(calls) : AwaitRejects(c)
    \/ \E c \in 1 .. Len(calls) : Recognize(c)

SpecOCR == InitOCR /\ [][NextOCR]_vars

\* call c has been handed a worker by initOCRWorker
HasWorker(c) == calls[c].pc \in {"returned", "recognize"}

\* C23: every worker initOCRWorker has returned has completed load('eng') and
\* reinitialize('eng'), also when the call of the mount effect is still
\* awaiting while performOCR calls initOCRWorker, and no more than one
\* worker has been created.
C23_ReturnedWorkerReadyAndSingle ==
    op = "ocr" =>
        /\ \A c \in 1 .. Len(calls) :
              HasWorker(c) =>
                 /\ workers[calls[c].returned].loaded
                 /\ workers[calls[c].returned].reinitialized
        /\ Len(workers) <= 1

\* the first half of C23 alone: a returned worker is loaded and reinitialized
C23_ReturnedWorkerReady ==
    op = "ocr" =>
        \A c \in 1 .. Len(calls) :
            HasWorker(c) =>
               /\ workers[calls[c].returned].loaded
               /\ workers[calls[c].returned].reinitialized

\* the second half of C23 alone: at most one worker is created
C23_SingleWorker ==
    op = "ocr" => Len(workers) <= 1

\* no await rejects and still performOCR calls recognize on a worker that
\* has not completed load('eng'), while two workers exist
C23_RecognizeOnUnloaded ==
    /\ op = "ocr"
    /\ \A c \in 1 .. Len(calls) : calls[c].pc # "threw"
    /\ Len(workers) >= 2
    /\ \E c \in 1 .. Len(calls) :
          /\ calls[c].pc = "recognize"
          /\ ~ workers[calls[c].returned].loaded

====
